---- MODULE Spec2Model ----
(***************************************************************************)
(* The multi-clip timeline editor of src/unnamed/part_000 (lines 1-608):   *)
(* the clip sequence, the derived layout, the global scrubber, clip        *)
(* placement and the playback handlers of the single <video> surface.      *)
(*                                                                         *)
(* Time is counted in centiseconds (0.01 s), so every duration the model   *)
(* draws is an integer and MIN_CLIP_LENGTH = 0.01 s is 1.  Quotients       *)
(* (percentages, seek targets) are exact rationals [num, den] in lowest    *)
(* terms; floating-point rounding of the JavaScript numbers is not         *)
(* modelled.                                                               *)
(***************************************************************************)
EXTENDS Integers, Sequences, FiniteSets, Bags, TLC

VARIABLES
    clips,            \* useState<TimelineClip[]>: <<[id, duration, track]>>
    activeClipId,     \* useState<string | null>: a clip id, or NoClip
    timelineProgress, \* useState(0): the global scrub position, a rational
    pendingSeek,      \* pendingSeekRef: <<>> or <<[clipId, time]>>
    videoTime,        \* video.currentTime of the mounted <video>, a rational
    videoReady,       \* the mounted <video> has delivered loadedmetadata
    objectUrls,       \* objectUrlsRef: the set of created object URLs
    batches,          \* the running loadFilesSequentially calls
    nextFile,         \* the number of files handed to loadFile so far
    mounted,          \* the App component is mounted
    revokedUrls,      \* the bag of the URLs handed to URL.revokeObjectURL
    singleClip        \* the single-clip editor of src/src/App.tsx (see below)

vars == <<clips, activeClipId, timelineProgress, pendingSeek, videoTime,
          videoReady, objectUrls, batches, nextFile, mounted, revokedUrls,
          singleClip>>

\* What the handlers of the surface and of the timeline leave alone.
importVars == <<objectUrls, batches, nextFile, mounted, revokedUrls,
               singleClip>>

----------------------------------------------------------------------------
(* Bounds of the model.                                                    *)

MaxClips == 3
MaxFiles == 2
MaxBatches == 2

(* Program constants.                                                      *)

MIN_CLIP_LENGTH == 1
TrackCount == 2

NoClip == 0

----------------------------------------------------------------------------
(* Exact rational arithmetic for the JavaScript numbers.                   *)

\* Each operator binds its operands once (x, y), so that an operand that
\* is itself a long expression is evaluated once however often it is used.

Abs(x) == IF x < 0 THEN -x ELSE x

RECURSIVE GCD(_, _)
GCD(a, b) ==
    IF b = 0 THEN a
    ELSE CHOOSE g \in {GCD(y, x % y) : x \in {a}, y \in {b}} : TRUE

Rat(n, d) ==
    CHOOSE r \in {[num |-> (s * n) \div g, den |-> (s * d) \div g] :
                     s \in {IF d < 0 THEN -1 ELSE 1},
                     g \in {GCD(Abs(n), Abs(d))}} : TRUE

FromInt(i) == [num |-> i, den |-> 1]
Zero == FromInt(0)
Hundred == FromInt(100)

RAdd(a, b) ==
    CHOOSE r \in {Rat(x.num * y.den + y.num * x.den, x.den * y.den) :
                     x \in {a}, y \in {b}} : TRUE
RSub(a, b) ==
    CHOOSE r \in {Rat(x.num * y.den - y.num * x.den, x.den * y.den) :
                     x \in {a}, y \in {b}} : TRUE
RMul(a, b) ==
    CHOOSE r \in {Rat(x.num * y.num, x.den * y.den) :
                     x \in {a}, y \in {b}} : TRUE
RDiv(a, b) ==
    CHOOSE r \in {Rat(x.num * y.den, x.den * y.num) :
                     x \in {a}, y \in {b}} : TRUE
RLeq(a, b) == \E x \in {a}, y \in {b} : x.num * y.den <= y.num * x.den
RLess(a, b) == \E x \in {a}, y \in {b} : x.num * y.den < y.num * x.den
RMin(a, b) ==
    CHOOSE r \in {IF RLeq(x, y) THEN x ELSE y : x \in {a}, y \in {b}} : TRUE
RMax(a, b) ==
    CHOOSE r \in {IF RLeq(x, y) THEN y ELSE x : x \in {a}, y \in {b}} : TRUE

\* x || y on numbers: y when x is 0 (or NaN), x otherwise.
OrElse(x, y) == IF x = 0 THEN y ELSE x

----------------------------------------------------------------------------
(* clipLayouts: the derived layout of a clip sequence.                     *)

RECURSIVE SumSafe(_)
SumSafe(cs) ==
    IF cs = <<>> THEN 0
    ELSE OrElse(Head(cs).duration, MIN_CLIP_LENGTH) + SumSafe(Tail(cs))

RECURSIVE SumActual(_)
SumActual(cs) ==
    IF cs = <<>> THEN 0 ELSE OrElse(Head(cs).duration, 0) + SumActual(Tail(cs))

\* layoutTotal summed over the actual durations.
LayoutTotalOfActual(cs) == OrElse(SumActual(cs), MIN_CLIP_LENGTH)

LayoutTotal(cs) == OrElse(SumSafe(cs), MIN_CLIP_LENGTH)

\* The callback of clips.map: the item of a clip, from the two cursors as
\* they stand when the pass comes to it.
LayoutItem(clip, layoutTotal, actualCursor, layoutCursor) ==
    LET safeDuration == OrElse(clip.duration, MIN_CLIP_LENGTH)
    IN  [id |-> clip.id, duration |-> clip.duration, track |-> clip.track,
         start |-> actualCursor,
         layoutStart |-> layoutCursor,
         widthPercent |-> RMul(Rat(safeDuration, layoutTotal), Hundred),
         safeDuration |-> safeDuration]

\* The pass advancing both cursors by the safeDuration.
RECURSIVE LayoutPassOneCursor(_, _, _, _, _)
LayoutPassOneCursor(cs, layoutTotal, actualCursor, layoutCursor, items) ==
    IF cs = <<>> THEN [items |-> items, actualCursor |-> actualCursor]
    ELSE LayoutPassOneCursor(
             Tail(cs), layoutTotal,
             actualCursor + OrElse(Head(cs).duration, MIN_CLIP_LENGTH),
             layoutCursor + OrElse(Head(cs).duration, MIN_CLIP_LENGTH),
             Append(items, LayoutItem(Head(cs), layoutTotal, actualCursor,
                                      layoutCursor)))

\* clips.map over the sequence, in order: each item takes the cursors as
\* they stand, then the layout cursor advances by the safeDuration and the
\* actual cursor by the actual duration; items holds the items built so far.
RECURSIVE LayoutPass(_, _, _, _, _)
LayoutPass(cs, layoutTotal, actualCursor, layoutCursor, items) ==
    IF cs = <<>> THEN [items |-> items, actualCursor |-> actualCursor]
    ELSE LayoutPass(
             Tail(cs), layoutTotal,
             actualCursor + OrElse(Head(cs).duration, 0),
             layoutCursor + OrElse(Head(cs).duration, MIN_CLIP_LENGTH),
             Append(items, LayoutItem(Head(cs), layoutTotal, actualCursor,
                                      layoutCursor)))

ClipLayouts(cs) ==
    LET pass == LayoutPass(cs, LayoutTotal(cs), 0, 0, <<>>)
    IN  [items |-> pass.items,
         totalDuration |-> pass.actualCursor,
         layoutTotal |-> LayoutTotal(cs)]

\* findIndex: the first index whose clip has the id, 0 when there is none.
FindIndex(cs, id) ==
    IF \E i \in 1..Len(cs) : cs[i].id = id
    THEN CHOOSE i \in 1..Len(cs) :
             cs[i].id = id /\ \A j \in 1..(i - 1) : cs[j].id # id
    ELSE 0

\* activeClip: the index of the active layout item, 0 for null.
ActiveIndex(cs, aid) ==
    IF Len(cs) = 0 THEN 0
    ELSE IF FindIndex(cs, aid) # 0 THEN FindIndex(cs, aid) ELSE 1

ActiveId(cs, aid) ==
    IF ActiveIndex(cs, aid) = 0 THEN NoClip ELSE cs[ActiveIndex(cs, aid)].id

----------------------------------------------------------------------------
(* placeClip: the updater handed to setClips.                              *)

Without(cs, clipId) == SelectSeq(cs, LAMBDA c : c.id # clipId)

\* cs.splice(i, 0, x): x follows the first i elements (all of them, if fewer).
InsertAt(cs, i, x) ==
    LET k == IF i > Len(cs) THEN Len(cs) ELSE i
    IN  SubSeq(cs, 1, k) \o <<x>> \o SubSeq(cs, k + 1, Len(cs))

\* placeClip inserting into the sequence that still holds the moving clip.
PlaceClipKeepsSource(current, clipId, track, targetId, position) ==
    LET sourceIndex == FindIndex(current, clipId)
        moving == [current[sourceIndex] EXCEPT !.track = track]
        targetIndex == FindIndex(current, targetId)
    IN  IF clipId = NoClip \/ sourceIndex = 0 THEN current
        ELSE IF targetId = NoClip \/ position = "end" THEN Append(current, moving)
        ELSE IF targetIndex = 0 THEN Append(current, moving)
        ELSE IF position = "before" THEN InsertAt(current, targetIndex - 1, moving)
        ELSE InsertAt(current, targetIndex, moving)

\* placeClip looking the target up before the moving clip is removed.
PlaceClipAtOriginalIndex(current, clipId, track, targetId, position) ==
    LET sourceIndex == FindIndex(current, clipId)
        moving == [current[sourceIndex] EXCEPT !.track = track]
        without == Without(current, clipId)
        targetIndex == FindIndex(current, targetId)
    IN  IF clipId = NoClip \/ sourceIndex = 0 THEN current
        ELSE IF targetId = NoClip \/ position = "end" THEN Append(without, moving)
        ELSE IF FindIndex(without, targetId) = 0 THEN Append(without, moving)
        ELSE IF position = "before" THEN InsertAt(without, targetIndex - 1, moving)
        ELSE InsertAt(without, targetIndex, moving)

\* placeClip moving the clip without reassigning its track.
PlaceClipKeepsTrack(current, clipId, track, targetId, position) ==
    LET sourceIndex == FindIndex(current, clipId)
        moving == current[sourceIndex]
        without == Without(current, clipId)
        targetIndex == FindIndex(without, targetId)
    IN  IF clipId = NoClip \/ sourceIndex = 0 THEN current
        ELSE IF targetId = NoClip \/ position = "end" THEN Append(without, moving)
        ELSE IF targetIndex = 0 THEN Append(without, moving)
        ELSE IF position = "before" THEN InsertAt(without, targetIndex - 1, moving)
        ELSE InsertAt(without, targetIndex, moving)

\* placeClip without the check that the moving clip was found.
PlaceClipUnchecked(current, clipId, track, targetId, position) ==
    LET sourceIndex == FindIndex(current, clipId)
        moving == IF sourceIndex = 0
                  THEN [id |-> NoClip, duration |-> 0, track |-> track]
                  ELSE [current[sourceIndex] EXCEPT !.track = track]
        without == Without(current, clipId)
        targetIndex == FindIndex(without, targetId)
    IN  IF clipId = NoClip THEN current
        ELSE IF targetId = NoClip \/ position = "end" THEN Append(without, moving)
        ELSE IF targetIndex = 0 THEN Append(without, moving)
        ELSE IF position = "before" THEN InsertAt(without, targetIndex - 1, moving)
        ELSE InsertAt(without, targetIndex, moving)

\* placeClip splicing at the index findIndex gave, found or not (-1).
PlaceClipNoFallback(current, clipId, track, targetId, position) ==
    LET sourceIndex == FindIndex(current, clipId)
        moving == [current[sourceIndex] EXCEPT !.track = track]
        without == Without(current, clipId)
        targetIndex == FindIndex(without, targetId)
        fromEnd == IF Len(without) = 0 THEN 0 ELSE Len(without) - 1
    IN  IF clipId = NoClip \/ sourceIndex = 0 THEN current
        ELSE IF targetId = NoClip \/ position = "end" THEN Append(without, moving)
        ELSE IF targetIndex = 0
             THEN IF position = "before" THEN InsertAt(without, fromEnd, moving)
                  ELSE InsertAt(without, 0, moving)
        ELSE IF position = "before" THEN InsertAt(without, targetIndex - 1, moving)
        ELSE InsertAt(without, targetIndex, moving)

\* placeClip moving the clip to the next track after the destination track
\* when it already is on the destination track.
PlaceClipOffTrack(current, clipId, track, targetId, position) ==
    LET sourceIndex == FindIndex(current, clipId)
        moving == [current[sourceIndex] EXCEPT
                      !.track = IF @ = track THEN (track + 1) % TrackCount
                                ELSE track]
        without == Without(current, clipId)
        targetIndex == FindIndex(without, targetId)
    IN  IF clipId = NoClip \/ sourceIndex = 0 THEN current
        ELSE IF targetId = NoClip \/ position = "end" THEN Append(without, moving)
        ELSE IF targetIndex = 0 THEN Append(without, moving)
        ELSE IF position = "before" THEN InsertAt(without, targetIndex - 1, moving)
        ELSE InsertAt(without, targetIndex, moving)

\* placeClip exchanging the moving clip and the anchor instead of splicing.
PlaceClipSwapping(current, clipId, track, targetId, position) ==
    LET sourceIndex == FindIndex(current, clipId)
        moving == [current[sourceIndex] EXCEPT !.track = track]
        without == Without(current, clipId)
        targetIndex == FindIndex(current, targetId)
    IN  IF clipId = NoClip \/ sourceIndex = 0 THEN current
        ELSE IF targetId = NoClip \/ position = "end" THEN Append(without, moving)
        ELSE IF targetIndex = 0 THEN Append(without, moving)
        ELSE [current EXCEPT ![sourceIndex] = current[targetIndex],
                             ![targetIndex] = moving]

PlaceClip(current, clipId, track, targetId, position) ==
    LET sourceIndex == FindIndex(current, clipId)
        moving == [current[sourceIndex] EXCEPT !.track = track]
        without == Without(current, clipId)
        targetIndex == FindIndex(without, targetId)
    IN  IF clipId = NoClip \/ sourceIndex = 0 THEN current
        ELSE IF targetId = NoClip \/ position = "end" THEN Append(without, moving)
        ELSE IF targetIndex = 0 THEN Append(without, moving)
        ELSE IF position = "before" THEN InsertAt(without, targetIndex - 1, moving)
        ELSE InsertAt(without, targetIndex, moving)

----------------------------------------------------------------------------
(* The seek mapping of seekTimelinePercent and its inverse, syncFromVideo. *)

Durations == {0, 1, 2}

\* The values the range input and its callers hand to seekTimelinePercent.
Percents ==
    {FromInt(-10), Zero, FromInt(25), Rat(100, 3), FromInt(50), Rat(200, 3),
     FromInt(75), Hundred, FromInt(130)}

ClampPercent(value) == RMin(Hundred, RMax(Zero, value))

TargetSeconds(lay, value) ==
    RMul(RDiv(ClampPercent(value), Hundred), FromInt(lay.totalDuration))

\* items.find(targetSeconds <= clipEnd) ?? fallbackClip, as an index.
\* The target search taking a clip only when the target lies before its end.
TargetIndexStrict(lay, targetSeconds) ==
    LET hit(i) ==
            RLess(targetSeconds,
                  FromInt(lay.items[i].start
                          + OrElse(lay.items[i].duration, MIN_CLIP_LENGTH)))
    IN  IF \E i \in 1..Len(lay.items) : hit(i)
        THEN CHOOSE i \in 1..Len(lay.items) :
                 hit(i) /\ \A j \in 1..(i - 1) : ~hit(j)
        ELSE Len(lay.items)

TargetIndex(lay, targetSeconds) ==
    LET hit(i) ==
            RLeq(targetSeconds,
                 FromInt(lay.items[i].start
                         + OrElse(lay.items[i].duration, MIN_CLIP_LENGTH)))
    IN  IF \E i \in 1..Len(lay.items) : hit(i)
        THEN CHOOSE i \in 1..Len(lay.items) :
                 hit(i) /\ \A j \in 1..(i - 1) : ~hit(j)
        ELSE Len(lay.items)

\* The local time taken from the start of the timeline, not of the clip.
SecondsIntoTimeline(item, targetSeconds) ==
    RMin(FromInt(OrElse(item.duration, MIN_CLIP_LENGTH)),
         RMax(Zero, targetSeconds))

SecondsIntoClip(item, targetSeconds) ==
    RMin(FromInt(OrElse(item.duration, MIN_CLIP_LENGTH)),
         RMax(Zero, RSub(targetSeconds, FromInt(item.start))))

\* The percentage syncFromVideo computes for the clip at index i at time t.
\* The percentage computed from the clip's own time alone.
GlobalPercentOfClipTime(lay, i, t) ==
    LET clipDuration == OrElse(lay.items[i].duration, MIN_CLIP_LENGTH)
        clipTime == RMin(t, FromInt(clipDuration))
    IN  RMul(RDiv(clipTime, FromInt(lay.totalDuration)), Hundred)

GlobalPercent(lay, i, t) ==
    LET clipDuration == OrElse(lay.items[i].duration, MIN_CLIP_LENGTH)
        clipTime == RMin(t, FromInt(clipDuration))
        globalSeconds == RAdd(FromInt(lay.items[i].start), clipTime)
    IN  RMul(RDiv(globalSeconds, FromInt(lay.totalDuration)), Hundred)

\* syncFromVideo: the new timelineProgress, given video.currentTime = t.
SyncFromVideo(cs, aid, t, progress) ==
    LET lay == ClipLayouts(cs)
        i == ActiveIndex(cs, aid)
    IN  IF i = 0 \/ lay.totalDuration = 0 THEN progress
        ELSE GlobalPercent(lay, i, t)

\* The lengths a media resource may have when its probe read none.
UnprobedLengths == {0, 2}

\* video.duration of the element playing a clip: the length the probe read;
\* when the probe read none (it failed, or read 0), the element may find
\* the resource empty or of some length.
VideoDurations(clip) ==
    IF clip.duration = 0 THEN UnprobedLengths ELSE {clip.duration}

----------------------------------------------------------------------------
(* The state after a handler's state updates are rendered: the effects of  *)
(* lines 121-130 and 132-138 run, and a changed key remounts the <video>.  *)

Commit(cs, aid, progress, t, ready) ==
    LET aid2 == IF Len(cs) = 0 THEN NoClip
                ELSE IF aid = NoClip THEN cs[1].id ELSE aid
        before == ActiveId(clips, activeClipId)
        after == ActiveId(cs, aid2)
        depsChanged == after # before \/ Len(cs) # Len(clips)
    IN  /\ mounted
        /\ clips' = cs
        /\ activeClipId' = aid2
        /\ timelineProgress' =
               IF depsChanged /\ Len(cs) = 0 THEN Zero ELSE progress
        /\ videoTime' = IF depsChanged THEN Zero ELSE t
        /\ videoReady' = IF after # before THEN FALSE ELSE ready

----------------------------------------------------------------------------
(* The handlers.                                                           *)

\* seekTimelinePercent returning early on an empty sequence only.
SeekWritesIgnoringTotal(value) ==
    LET lay == ClipLayouts(clips)
        nextValue == ClampPercent(value)
        targetSeconds == TargetSeconds(lay, value)
        targetClip == lay.items[TargetIndex(lay, targetSeconds)]
        secondsIntoClip == SecondsIntoClip(targetClip, targetSeconds)
        same == targetClip.id = ActiveId(clips, activeClipId)
    IN  IF Len(clips) = 0
        THEN [activeClipId |-> activeClipId,
              timelineProgress |-> timelineProgress,
              pendingSeek |-> pendingSeek,
              videoTime |-> videoTime]
        ELSE [activeClipId |-> targetClip.id,
              timelineProgress |-> nextValue,
              pendingSeek |->
                  IF same THEN <<>>
                  ELSE <<[clipId |-> targetClip.id, time |-> secondsIntoClip]>>,
              videoTime |-> IF same THEN secondsIntoClip ELSE videoTime]

\* seekTimelinePercent queueing its record behind the unapplied ones.
SeekWritesQueued(value) ==
    LET lay == ClipLayouts(clips)
        nextValue == ClampPercent(value)
        targetSeconds == TargetSeconds(lay, value)
        targetClip == lay.items[TargetIndex(lay, targetSeconds)]
        secondsIntoClip == SecondsIntoClip(targetClip, targetSeconds)
        same == targetClip.id = ActiveId(clips, activeClipId)
    IN  IF Len(clips) = 0 \/ lay.totalDuration = 0
        THEN [activeClipId |-> activeClipId,
              timelineProgress |-> timelineProgress,
              pendingSeek |-> pendingSeek,
              videoTime |-> videoTime]
        ELSE [activeClipId |-> targetClip.id,
              timelineProgress |-> nextValue,
              pendingSeek |->
                  IF same THEN <<>>
                  ELSE Append(pendingSeek,
                              [clipId |-> targetClip.id, time |-> secondsIntoClip]),
              videoTime |-> IF same THEN secondsIntoClip ELSE videoTime]

\* seekTimelinePercent without the same-clip branch of lines 235-241: the
\* record of line 233 stays and the surface is not written.
SeekWritesRecordingOnly(value) ==
    LET lay == ClipLayouts(clips)
        nextValue == ClampPercent(value)
        targetSeconds == TargetSeconds(lay, value)
        targetClip == lay.items[TargetIndex(lay, targetSeconds)]
        secondsIntoClip == SecondsIntoClip(targetClip, targetSeconds)
    IN  IF Len(clips) = 0 \/ lay.totalDuration = 0
        THEN [activeClipId |-> activeClipId,
              timelineProgress |-> timelineProgress,
              pendingSeek |-> pendingSeek,
              videoTime |-> videoTime]
        ELSE [activeClipId |-> targetClip.id,
              timelineProgress |-> nextValue,
              pendingSeek |->
                  <<[clipId |-> targetClip.id, time |-> secondsIntoClip]>>,
              videoTime |-> videoTime]

\* What seekTimelinePercent(value) writes: the state it sets, the ref and
\* the surface position, before the next render.
SeekWrites(value) ==
    LET lay == ClipLayouts(clips)
        nextValue == ClampPercent(value)
        targetSeconds == TargetSeconds(lay, value)
        targetClip == lay.items[TargetIndex(lay, targetSeconds)]
        secondsIntoClip == SecondsIntoClip(targetClip, targetSeconds)
        same == targetClip.id = ActiveId(clips, activeClipId)
    IN  IF Len(clips) = 0 \/ lay.totalDuration = 0
        THEN [activeClipId |-> activeClipId,
              timelineProgress |-> timelineProgress,
              pendingSeek |-> pendingSeek,
              videoTime |-> videoTime]
        ELSE [activeClipId |-> targetClip.id,
              timelineProgress |-> nextValue,
              pendingSeek |->
                  IF same THEN <<>>
                  ELSE <<[clipId |-> targetClip.id, time |-> secondsIntoClip]>>,
              videoTime |-> IF same THEN secondsIntoClip ELSE videoTime]

SeekTimelinePercent(value) ==
    LET w == SeekWrites(value)
    IN  /\ pendingSeek' = w.pendingSeek
        /\ Commit(clips, w.activeClipId, w.timelineProgress, w.videoTime,
                  videoReady)
        /\ UNCHANGED importVars

\* handleLoadedMetadata calling syncFromVideo before it applies the record.
LoadedMetadataSyncsFirst(d) ==
    LET i == ActiveIndex(clips, activeClipId)
        applies == pendingSeek # <<>> /\ pendingSeek[1].clipId = clips[i].id
        target == RMin(pendingSeek[1].time,
                       IF d = 0 THEN pendingSeek[1].time ELSE FromInt(d))
        loaded == RMin(videoTime, FromInt(d))
        currentTime == IF applies THEN target ELSE loaded
    IN  /\ pendingSeek' = IF applies THEN <<>> ELSE pendingSeek
        /\ Commit(clips, activeClipId,
                  SyncFromVideo(clips, activeClipId, loaded, timelineProgress),
                  RMin(currentTime, FromInt(d)), TRUE)
        /\ UNCHANGED importVars

\* handleLoadedMetadata on an element whose video.duration is d.  The
\* element loads at the position set on it, within the resource; a
\* currentTime assigned now reads back as assigned, and the element then
\* settles within the resource: a position past the end becomes the end.
MetadataWrites(cs, activeId, pending, time, progress, d) ==
    LET i == ActiveIndex(cs, activeId)
        applies == pending # <<>> /\ pending[1].clipId = cs[i].id
        target == RMin(pending[1].time,
                       IF d = 0 THEN pending[1].time ELSE FromInt(d))
        loaded == RMin(time, FromInt(d))
        currentTime == IF applies THEN target ELSE loaded
    IN  [pendingSeek |-> IF applies THEN <<>> ELSE pending,
         timelineProgress |-> SyncFromVideo(cs, activeId, currentTime, progress),
         videoTime |-> RMin(currentTime, FromInt(d))]

LoadedMetadataOf(d) ==
    LET w == MetadataWrites(clips, activeClipId, pendingSeek, videoTime,
                            timelineProgress, d)
    IN  /\ pendingSeek' = w.pendingSeek
        /\ Commit(clips, activeClipId, w.timelineProgress, w.videoTime, TRUE)
        /\ UNCHANGED importVars

HandleLoadedMetadata ==
    LET i == ActiveIndex(clips, activeClipId)
    IN  /\ i # 0
        /\ ~videoReady
        /\ \E d \in VideoDurations(clips[i]) : LoadedMetadataOf(d)

\* The positions a playing surface of length d reports.
PlaybackTimes(d) == {Zero, Rat(d, 2), FromInt(d)}

\* onTimeUpdate: the surface has moved to position t and reports it.
TimeUpdateAt(t) ==
    /\ Commit(clips, activeClipId,
              SyncFromVideo(clips, activeClipId, t, timelineProgress),
              t, videoReady)
    /\ UNCHANGED <<pendingSeek, importVars>>

HandleTimeUpdate ==
    LET i == ActiveIndex(clips, activeClipId)
    IN  /\ i # 0
        /\ videoReady
        /\ \E d \in VideoDurations(clips[i]) :
               \E t \in PlaybackTimes(d) \cup {RMin(videoTime, FromInt(d))} :
                   TimeUpdateAt(t)

\* HandleVideoEnded advancing to the next clip of the active clip's track.
EndedNextOnSameTrack ==
    LET lay == ClipLayouts(clips)
        currentIndex == ActiveIndex(clips, activeClipId)
        later == {j \in (currentIndex + 1)..Len(clips) :
                     clips[j].track = clips[currentIndex].track}
    IN  /\ currentIndex # 0
        /\ videoReady
        /\ IF later # {}
           THEN LET nextClip == lay.items[CHOOSE j \in later : \A k \in later : j <= k]
                IN  /\ pendingSeek' = <<[clipId |-> nextClip.id, time |-> Zero]>>
                    /\ Commit(clips, nextClip.id,
                              IF lay.totalDuration # 0
                              THEN RMul(Rat(nextClip.start, lay.totalDuration),
                                        Hundred)
                              ELSE timelineProgress,
                              videoTime, videoReady)
           ELSE /\ \E d \in VideoDurations(clips[currentIndex]) :
                       Commit(clips, activeClipId, Hundred, FromInt(d), videoReady)
                /\ UNCHANGED pendingSeek
        /\ UNCHANGED importVars

\* HandleVideoEnded wrapping around to the first clip after the last one.
EndedLoopsToFirst ==
    LET lay == ClipLayouts(clips)
        currentIndex == ActiveIndex(clips, activeClipId)
        nextClip == lay.items[(currentIndex % Len(clips)) + 1]
    IN  /\ currentIndex # 0
        /\ videoReady
        /\ pendingSeek' = <<[clipId |-> nextClip.id, time |-> Zero]>>
        /\ Commit(clips, nextClip.id,
                  IF lay.totalDuration # 0
                  THEN RMul(Rat(nextClip.start, lay.totalDuration), Hundred)
                  ELSE timelineProgress,
                  videoTime, videoReady)
        /\ UNCHANGED importVars

\* handleVideoEnded without setActiveClipId(nextClip.id).
EndedWithoutAdvance ==
    LET lay == ClipLayouts(clips)
        currentIndex == ActiveIndex(clips, activeClipId)
    IN  /\ currentIndex # 0
        /\ videoReady
        /\ IF currentIndex < Len(clips)
           THEN LET nextClip == lay.items[currentIndex + 1]
                IN  /\ pendingSeek' = <<[clipId |-> nextClip.id, time |-> Zero]>>
                    /\ Commit(clips, activeClipId,
                              IF lay.totalDuration # 0
                              THEN RMul(Rat(nextClip.start, lay.totalDuration),
                                        Hundred)
                              ELSE timelineProgress,
                              videoTime, videoReady)
           ELSE /\ \E d \in VideoDurations(clips[currentIndex]) :
                       Commit(clips, activeClipId, Hundred, FromInt(d), videoReady)
                /\ UNCHANGED pendingSeek
        /\ UNCHANGED importVars

HandleVideoEnded ==
    LET lay == ClipLayouts(clips)
        currentIndex == ActiveIndex(clips, activeClipId)
    IN  /\ currentIndex # 0
        /\ videoReady
        /\ IF currentIndex < Len(clips)
           THEN LET nextClip == lay.items[currentIndex + 1]
                IN  /\ pendingSeek' = <<[clipId |-> nextClip.id, time |-> Zero]>>
                    /\ Commit(clips, nextClip.id,
                              IF lay.totalDuration # 0
                              THEN RMul(Rat(nextClip.start, lay.totalDuration),
                                        Hundred)
                              ELSE timelineProgress,
                              videoTime, videoReady)
           ELSE /\ \E d \in VideoDurations(clips[currentIndex]) :
                       Commit(clips, activeClipId, Hundred, FromInt(d), videoReady)
                /\ UNCHANGED pendingSeek
        /\ UNCHANGED importVars

\* onClick of a library entry or of a timeline clip: setActiveClipId(clip.id).
ClickClip(id) ==
    /\ \E i \in 1..Len(clips) : clips[i].id = id
    /\ Commit(clips, id, timelineProgress, videoTime, videoReady)
    /\ UNCHANGED <<pendingSeek, importVars>>

\* handleClipDropOnClip and handleRowDrop: a dragged clip is dropped on a
\* clip of a row (before or after it) or on the row itself (at the end).
DropClip(clipId, track, targetId, position) ==
    /\ Commit(PlaceClip(clips, clipId, track, targetId, position),
              activeClipId, timelineProgress, videoTime, videoReady)
    /\ UNCHANGED <<pendingSeek, importVars>>

HandleClipDropOnClip(draggingClipId, trackIndex, targetClipId, shouldDropBefore) ==
    /\ draggingClipId # targetClipId
    /\ DropClip(draggingClipId, trackIndex, targetClipId,
                IF shouldDropBefore THEN "before" ELSE "after")

HandleRowDrop(draggingClipId, trackIndex) ==
    DropClip(draggingClipId, trackIndex, NoClip, "end")

----------------------------------------------------------------------------
(* Import: handleDrop and handleFileChange run loadFilesSequentially,      *)
(* which awaits loadFile for one file after the other.                     *)

Batches == 1..MaxBatches

IdleBatch == [active |-> FALSE, len |-> 0, left |-> 0, url |-> 0]

\* The outcomes of the probe element of readVideoDuration.
ProbeOutcomes ==
    {[kind |-> "error", duration |-> 0]}
        \cup {[kind |-> "loadedmetadata", duration |-> d] : d \in Durations}

\* readVideoDuration resolving the floor length when the probe fails.
ReadVideoDurationFloored(outcome) ==
    IF outcome.kind = "error" THEN MIN_CLIP_LENGTH ELSE OrElse(outcome.duration, 0)

ReadVideoDuration(outcome) ==
    IF outcome.kind = "error" THEN 0 ELSE OrElse(outcome.duration, 0)

\* The files of the running batches 1..b that loadFile has yet to be called for.
RECURSIVE FilesLeft(_)
FilesLeft(b) == IF b = 0 THEN 0 ELSE batches[b].left + FilesLeft(b - 1)

\* handleDrop, handleFileChange: a batch of n files starts; loadFile of the
\* first file creates its object URL and awaits the probe.  The closure
\* keeps the clips of the render the handler was created in.
StartBatch(b, n, cap) ==
    /\ mounted
    /\ ~batches[b].active
    /\ nextFile + FilesLeft(MaxBatches) + n <= cap
    /\ nextFile' = nextFile + 1
    /\ objectUrls' = objectUrls \cup {nextFile + 1}
    /\ batches' = [batches EXCEPT ![b] =
           [active |-> TRUE, len |-> Len(clips), left |-> n - 1,
            url |-> nextFile + 1]]
    /\ UNCHANGED <<clips, activeClipId, timelineProgress, pendingSeek,
                   videoTime, videoReady, mounted, revokedUrls, singleClip>>

\* The clip loadFile builds once the probe has resolved.
NewClip(batch, duration) ==
    [id |-> batch.url, duration |-> duration, track |-> batch.len % TrackCount]

\* loadFile appending to the clips of its closure, setClips([...clips,
\* newClip]): the clips that stood when the batch began.
ProbeResolvesStale(b, outcome) ==
    LET newClip == NewClip(batches[b], ReadVideoDuration(outcome))
    IN  /\ batches[b].active
        /\ IF mounted
           THEN Commit(Append(SubSeq(clips, 1, batches[b].len), newClip),
                       IF activeClipId = NoClip THEN newClip.id ELSE activeClipId,
                       Zero, videoTime, videoReady)
           ELSE UNCHANGED <<clips, activeClipId, timelineProgress, videoTime,
                            videoReady>>
        /\ IF batches[b].left > 0
           THEN /\ nextFile' = nextFile + 1
                /\ objectUrls' = objectUrls \cup {nextFile + 1}
                /\ batches' = [batches EXCEPT ![b].left = @ - 1,
                                              ![b].url = nextFile + 1]
           ELSE /\ batches' = [batches EXCEPT ![b] = IdleBatch]
                /\ UNCHANGED <<nextFile, objectUrls>>
        /\ UNCHANGED <<pendingSeek, mounted, revokedUrls, singleClip>>

\* loadFile making every clip it appends the active one.
ProbeResolvesSelecting(b, outcome) ==
    LET newClip == NewClip(batches[b], ReadVideoDuration(outcome))
    IN  /\ batches[b].active
        /\ IF mounted
           THEN Commit(Append(clips, newClip), newClip.id,
                       Zero, videoTime, videoReady)
           ELSE UNCHANGED <<clips, activeClipId, timelineProgress, videoTime,
                            videoReady>>
        /\ IF batches[b].left > 0
           THEN /\ nextFile' = nextFile + 1
                /\ objectUrls' = objectUrls \cup {nextFile + 1}
                /\ batches' = [batches EXCEPT ![b].left = @ - 1,
                                              ![b].url = nextFile + 1]
           ELSE /\ batches' = [batches EXCEPT ![b] = IdleBatch]
                /\ UNCHANGED <<nextFile, objectUrls>>
        /\ UNCHANGED <<pendingSeek, mounted, revokedUrls, singleClip>>

\* The probe of batch b resolves: loadFile appends the clip, and the loop
\* of loadFilesSequentially calls loadFile for the next file, if any.  The
\* state setters of a component that is no longer mounted do nothing; the
\* loop goes on.
ProbeResolves(b, outcome) ==
    LET newClip == NewClip(batches[b], ReadVideoDuration(outcome))
    IN  /\ batches[b].active
        /\ IF mounted
           THEN Commit(Append(clips, newClip),
                       IF activeClipId = NoClip THEN newClip.id ELSE activeClipId,
                       Zero, videoTime, videoReady)
           ELSE UNCHANGED <<clips, activeClipId, timelineProgress, videoTime,
                            videoReady>>
        /\ IF batches[b].left > 0
           THEN /\ nextFile' = nextFile + 1
                /\ objectUrls' = objectUrls \cup {nextFile + 1}
                /\ batches' = [batches EXCEPT ![b].left = @ - 1,
                                              ![b].url = nextFile + 1]
           ELSE /\ batches' = [batches EXCEPT ![b] = IdleBatch]
                /\ UNCHANGED <<nextFile, objectUrls>>
        /\ UNCHANGED <<pendingSeek, mounted, revokedUrls, singleClip>>

\* The cleanup of the mount effect: the component unmounts, and every URL
\* that objectUrlsRef holds at that moment is revoked.
Unmount ==
    /\ mounted
    /\ mounted' = FALSE
    /\ revokedUrls' = revokedUrls (+) SetToBag(objectUrls)
    /\ UNCHANGED <<clips, activeClipId, timelineProgress, pendingSeek,
                   videoTime, videoReady, objectUrls, batches, nextFile,
                   singleClip>>

----------------------------------------------------------------------------
(* The single-clip editor of src/src/App.tsx (the same component as the    *)
(* snapshot at lines 610-875 of src/unnamed/part_000): one loaded clip,    *)
(* its object URL, and the scrubber of its <video>.  singleClip holds      *)
(*   media          useState<LoadedMedia | null>: the URL, or NoMedia      *)
(*   videoDuration  useState(0)                                            *)
(*   scrubProgress  useState(0), a rational                                *)
(*   video          the <video>: duration (0 while unknown), currentTime   *)
(*   mounted        the component is mounted                               *)
(*   created        the number of URL.createObjectURL calls so far         *)
(*   revoked        the bag of the URLs handed to URL.revokeObjectURL      *)

NoMedia == 0

SingleClipInit ==
    [media |-> NoMedia, videoDuration |-> 0, scrubProgress |-> Zero,
     video |-> [duration |-> 0, currentTime |-> Zero],
     mounted |-> TRUE, created |-> 0, revoked |-> EmptyBag]

\* What no handler of the single-clip editor touches.
timelineVars == <<clips, activeClipId, timelineProgress, pendingSeek,
                  videoTime, videoReady, objectUrls, batches, nextFile,
                  mounted, revokedUrls>>

\* The updater of setMedia: if (current) URL.revokeObjectURL(current.url).
MediaUpdaterRevokes(current) ==
    IF current # NoMedia THEN SetToBag({current}) ELSE EmptyBag

\* The cleanup of the effect on [media], run with the media of the render
\* that registered it: if (media) URL.revokeObjectURL(media.url).
MediaEffectCleanup(media) ==
    IF media # NoMedia THEN SetToBag({media}) ELSE EmptyBag

\* handleFileChange (loadFile in the snapshot): no file, no change.  With
\* a file, the new URL is created, the updater of setMedia runs, and
\* because media has changed the cleanup of the previous render's effect
\* runs as well.  The <video> gets a new src: its duration is unknown
\* again and it is back at 0.
SingleHandleFileChange(file, cap) ==
    /\ singleClip.mounted
    /\ singleClip.created < cap
    /\ IF ~file
       THEN UNCHANGED singleClip
       ELSE LET nextUrl == singleClip.created + 1
            IN  singleClip' = [singleClip EXCEPT
                    !.created = nextUrl,
                    !.media = nextUrl,
                    !.revoked = @ (+) MediaUpdaterRevokes(singleClip.media)
                                  (+) MediaEffectCleanup(singleClip.media),
                    !.videoDuration = 0,
                    !.scrubProgress = Zero,
                    !.video = [duration |-> 0, currentTime |-> Zero]]
    /\ UNCHANGED timelineVars

\* syncFromVideo: nothing without a video of known, non-zero duration.
SingleSyncFromVideo(sc, video) ==
    IF sc.media = NoMedia \/ video.duration = 0
    THEN [sc EXCEPT !.video = video]
    ELSE [sc EXCEPT !.video = video,
                    !.videoDuration = video.duration,
                    !.scrubProgress =
                        RMul(RDiv(video.currentTime, FromInt(video.duration)),
                             Hundred)]

\* onLoadedMetadata={syncFromVideo}: the <video> learns its duration d.
SingleLoadedMetadata(d) ==
    /\ singleClip.mounted
    /\ singleClip.media # NoMedia
    /\ singleClip.video.duration = 0
    /\ singleClip' = SingleSyncFromVideo(singleClip,
                         [duration |-> d, currentTime |-> Zero])
    /\ UNCHANGED timelineVars

\* onTimeUpdate={syncFromVideo}: the <video> has moved to time t.
SingleTimeUpdate(t) ==
    /\ singleClip.mounted
    /\ singleClip.media # NoMedia
    /\ singleClip.video.duration # 0
    /\ t <= singleClip.video.duration
    /\ singleClip' = SingleSyncFromVideo(singleClip,
                         [singleClip.video EXCEPT !.currentTime = FromInt(t)])
    /\ UNCHANGED timelineVars

\* handleScrub: the slider value is stored, and the <video>, if it has a
\* duration, is moved to that share of it.  The slider is disabled while
\* no clip is loaded.
SingleHandleScrub(value) ==
    /\ singleClip.mounted
    /\ singleClip.media # NoMedia
    /\ singleClip' = [singleClip EXCEPT
           !.scrubProgress = value,
           !.video.currentTime =
               IF singleClip.video.duration = 0
               THEN @
               ELSE RMul(RDiv(value, Hundred),
                         FromInt(singleClip.video.duration))]
    /\ UNCHANGED timelineVars

\* The component unmounts: the cleanup of the last effect runs.
SingleUnmount ==
    /\ singleClip.mounted
    /\ singleClip' = [singleClip EXCEPT
           !.mounted = FALSE,
           !.revoked = @ (+) MediaEffectCleanup(singleClip.media)]
    /\ UNCHANGED timelineVars

----------------------------------------------------------------------------
(* The editor, from its first render.                                      *)

ClipIds == 1..MaxClips
Tracks == 0..(TrackCount - 1)

Init ==
    /\ clips = <<>>
    /\ activeClipId = NoClip
    /\ timelineProgress = Zero
    /\ pendingSeek = <<>>
    /\ videoTime = Zero
    /\ videoReady = FALSE
    /\ objectUrls = {}
    /\ batches = [b \in Batches |-> IdleBatch]
    /\ nextFile = 0
    /\ mounted = TRUE
    /\ revokedUrls = EmptyBag
    /\ singleClip = SingleClipInit

Playback ==
    \/ HandleLoadedMetadata
    \/ HandleTimeUpdate
    \/ HandleVideoEnded
    \/ \E id \in ClipIds : ClickClip(id)

Drops ==
    \/ \E c, t \in ClipIds, track \in Tracks, before \in BOOLEAN :
           HandleClipDropOnClip(c, track, t, before)
    \/ \E c \in ClipIds, track \in Tracks : HandleRowDrop(c, track)

Next ==
    \/ \E b \in Batches, n \in 1..MaxFiles : StartBatch(b, n, MaxFiles)
    \/ \E b \in Batches, outcome \in ProbeOutcomes : ProbeResolves(b, outcome)
    \/ \E value \in {Zero, FromInt(50), Hundred} : SeekTimelinePercent(value)
    \/ Playback
    \/ Drops

Spec == Init /\ [][Next]_vars

----------------------------------------------------------------------------
(* The single-clip editor alone: imports, the scrubber, the playback       *)
(* events of its <video>, and the unmount.                                 *)

MaxImports == 4

\* The slider positions the model drags to (min 0, max 100).
SliderValues == {FromInt(v) : v \in {0, 25, 50, 75, 100}}

NextSingleClip ==
    \/ \E file \in BOOLEAN : SingleHandleFileChange(file, MaxImports)
    \/ \E d \in Durations : SingleLoadedMetadata(d)
    \/ \E t \in Durations : SingleTimeUpdate(t)
    \/ \E value \in SliderValues : SingleHandleScrub(value)
    \/ SingleUnmount

SpecSingleClip == Init /\ [][NextSingleClip]_vars

----------------------------------------------------------------------------
(* The editor with clips already imported: the states that imports and     *)
(* drops lead to, with no import running.                                  *)

\* The clip sequences over the given ids and durations, each id at most once.
ClipSeqs(ids, durations) ==
    LET recs == [id : ids, duration : durations, track : Tracks]
        all == UNION {[1..n -> recs] : n \in 0..MaxClips}
    IN  {cs \in all : \A i, j \in 1..Len(cs) : cs[i].id = cs[j].id => i = j}

\* The sequence that importing files of these durations one at a time gives.
ImportedOneByOne(ds) ==
    [i \in 1..Len(ds) |->
        [id |-> i, duration |-> ds[i], track |-> (i - 1) % TrackCount]]

\* [A(10 s, track 0), B(0, track 1), C(20 s, track 0)]
ScenarioClips == ImportedOneByOne(<<1000, 0, 2000>>)

Loaded(cs, aid) ==
    /\ clips = cs
    /\ activeClipId = aid
    /\ timelineProgress = Zero
    /\ pendingSeek = <<>>
    /\ videoTime = Zero
    /\ videoReady = FALSE
    /\ objectUrls = {cs[i].id : i \in 1..Len(cs)}
    /\ batches = [b \in Batches |-> IdleBatch]
    /\ nextFile = MaxClips
    /\ mounted = TRUE
    /\ revokedUrls = EmptyBag
    /\ singleClip = SingleClipInit

\* Import alone.
NextImport ==
    \/ \E b \in Batches, n \in 1..MaxClips : StartBatch(b, n, MaxClips)
    \/ \E b \in Batches, outcome \in ProbeOutcomes : ProbeResolves(b, outcome)

SpecImport == Init /\ [][NextImport]_vars

\* Import and placement, no clip ever chosen by click, seek or ended event.
NextArrange ==
    \/ NextImport
    \/ Drops

SpecArrange == Init /\ [][NextArrange]_vars

\* Import and teardown: the life of the object URLs.
NextLifecycle ==
    \/ NextImport
    \/ Unmount

SpecLifecycle == Init /\ [][NextLifecycle]_vars

\* Placement alone: placeClip with every argument, stale and null ids too,
\* on clips that stand in the order of their import.
\* The ids a placeClip call may name: one more than a sequence can hold, so
\* that one at least is stale.
PlaceIds == 1..(MaxClips + 1)

InitPlace ==
    \E cs \in ClipSeqs(PlaceIds, {2}) :
        /\ \A i, j \in 1..Len(cs) : i < j => cs[i].id < cs[j].id
        /\ Loaded(cs, IF cs = <<>> THEN NoClip ELSE cs[1].id)

NextPlace ==
    \E c, t \in PlaceIds \cup {NoClip}, track \in Tracks,
       position \in {"before", "after", "end"} :
        DropClip(c, track, t, position)

SpecPlace == InitPlace /\ [][NextPlace]_vars

\* Scrubbing and playing a fixed sequence, the empty one too.
InitSeek ==
    \E cs \in {ImportedOneByOne(ds) :
                 ds \in UNION {[1..n -> Durations] : n \in 0..MaxClips}}
              \cup {ScenarioClips} :
        Loaded(cs, IF cs = <<>> THEN NoClip ELSE cs[1].id)

NextSeek ==
    \/ \E value \in Percents : SeekTimelinePercent(value)
    \/ HandleLoadedMetadata
    \/ HandleTimeUpdate
    \/ \E id \in ClipIds : ClickClip(id)

SpecSeek == InitSeek /\ [][NextSeek]_vars

\* Placement on the same sequences, clips of different durations among them.
SpecReorder == InitSeek /\ [][NextPlace]_vars

\* Playing through a fixed sequence, clip after clip.
InitPlay ==
    \E cs \in ClipSeqs(ClipIds, {0, 2}) \ {<<>>} :
        \E i \in 1..Len(cs) : Loaded(cs, cs[i].id)

NextPlay == Playback

SpecPlay == InitPlay /\ [][NextPlay]_vars

\* The surface left to itself, on clips in the order of their import, any
\* of them active at first: no click, no scrubbing, no import.  Each
\* surface delivers loadedmetadata, reports positions while it plays and
\* delivers ended; the surface of the last clip, once the scrubber stands at
\* the end, reports no further position.  The events the surface owes are
\* delivered: loadedmetadata for a surface that has loaded, ended for one
\* that plays.
InitContinuity ==
    \E n \in 1..MaxClips :
        \E ds \in [1..n -> Durations] :
            \E i \in 1..n : Loaded(ImportedOneByOne(ds), i)

AtEnd ==
    /\ ActiveIndex(clips, activeClipId) = Len(clips)
    /\ timelineProgress = Hundred

Plays == ~AtEnd /\ HandleTimeUpdate

NextContinuity ==
    \/ HandleLoadedMetadata
    \/ Plays
    \/ HandleVideoEnded

SpecContinuity ==
    /\ InitContinuity
    /\ [][NextContinuity]_vars
    /\ WF_vars(HandleLoadedMetadata)
    /\ WF_vars(HandleVideoEnded)

----------------------------------------------------------------------------
(* The claims.                                                             *)

\* 0/0: the value of a quotient whose divisor is 0.
NaN == [num |-> 0, den |-> 0]

\* x / total * 100 as the scrubber would hold it.
PercentOf(x, total) ==
    IF total = 0 THEN NaN ELSE RMul(Rat(x, total), Hundred)

\* The ended event arrives while the clip at index i is active.
EndedAt(i) == ActiveIndex(clips, activeClipId) = i /\ HandleVideoEnded

\* C1 as stated: for every non-last active clip, an ended event makes the
\* immediate successor in the global sequence active, whatever the tracks,
\* records the pending seek (successor, 0) and sets the global percent to
\* successor.start / actualTotal * 100.
C1_EndedAdvancesAsStated ==
    [][\A i \in 1..(Len(clips) - 1) :
          EndedAt(i) =>
              /\ activeClipId' = clips[i + 1].id
              /\ pendingSeek' = <<[clipId |-> clips[i + 1].id, time |-> Zero]>>
              /\ timelineProgress' =
                     PercentOf(SumActual(SubSeq(clips, 1, i)), SumActual(clips))
      ]_vars

\* C1, amended: as C1, with the global percent set to
\* successor.start / actualTotal * 100 when actualTotal is not 0 and left
\* unchanged when actualTotal is 0.
C1_EndedAdvances ==
    [][\A i \in 1..(Len(clips) - 1) :
          EndedAt(i) =>
              /\ clips' = clips
              /\ activeClipId' = clips[i + 1].id
              /\ pendingSeek' = <<[clipId |-> clips[i + 1].id, time |-> Zero]>>
              /\ timelineProgress' =
                     IF SumActual(clips) = 0 THEN timelineProgress
                     ELSE PercentOf(SumActual(SubSeq(clips, 1, i)),
                                    SumActual(clips))
      ]_vars

\* The ended event has advanced to a successor on another track than the
\* ended clip's, past a later clip of the ended clip's own track, and has
\* moved the global percent to the successor's start.
C1_Witness ==
    \E i \in 2..(Len(clips) - 1) :
        /\ clips[i].id = activeClipId
        /\ clips[i].track # clips[i - 1].track
        /\ clips[i + 1].track = clips[i - 1].track
        /\ pendingSeek = <<[clipId |-> activeClipId, time |-> Zero]>>
        /\ SumActual(SubSeq(clips, 1, i - 1)) > 0
        /\ timelineProgress =
               PercentOf(SumActual(SubSeq(clips, 1, i - 1)), SumActual(clips))

\* C2: an ended event while the last clip of the global sequence is active
\* leaves the sequence, the active clip and the pending-seek slot unchanged
\* and sets the global percent to 100; the last clip is still the active one
\* afterwards, so a further ended event advances nothing either.
C2_EndedOnLastIsTerminal ==
    [][EndedAt(Len(clips)) =>
          /\ clips' = clips
          /\ activeClipId' = activeClipId
          /\ pendingSeek' = pendingSeek
          /\ timelineProgress' = Hundred
          /\ ActiveIndex(clips', activeClipId') = Len(clips')
      ]_vars

\* The last of several clips has ended: with no actual duration known,
\* only the ended event moves the global percent, and it stands at 100.
C2_Witness ==
    /\ Len(clips) >= 2
    /\ ActiveIndex(clips, activeClipId) = Len(clips)
    /\ videoReady
    /\ SumActual(clips) = 0
    /\ timelineProgress = Hundred

\* The number of clips of cs with the id.
Occurrences(cs, id) == Cardinality({i \in 1..Len(cs) : cs[i].id = id})

\* C3: place is a permutation of the sequence: whatever the moving clip,
\* the destination track, the anchor and the position, the result has the
\* length of the input and each id of the input exactly once; every step
\* of a run of place calls keeps it so.
C3_PlaceIsPermutation ==
    [][/\ Len(clips') = Len(clips)
       /\ \A id \in PlaceIds : Occurrences(clips', id) = Occurrences(clips, id)
       /\ \A id \in PlaceIds : Occurrences(clips', id) <= 1
      ]_vars

\* Place calls have brought three clips out of their import order.
C3_Witness ==
    /\ Len(clips) = 3
    /\ clips[1].id > clips[2].id
    /\ clips[2].id > clips[3].id

\* Both clips are in the sequence, and the step is place(M, track, A, position).
PlacesAt(M, track, A, position) ==
    /\ M # A
    /\ FindIndex(clips, M) # 0
    /\ FindIndex(clips, A) # 0
    /\ DropClip(M, track, A, position)

\* C4 as stated: place(M, track, A, before) puts M at A's index in the
\* original sequence and place(M, track, A, after) at A's original index + 1,
\* for every original relative order of M and A.
C4_IndexAsStated ==
    [][\A M, A \in PlaceIds, track \in Tracks :
          /\ PlacesAt(M, track, A, "before") =>
                 FindIndex(clips', M) = FindIndex(clips, A)
          /\ PlacesAt(M, track, A, "after") =>
                 FindIndex(clips', M) = FindIndex(clips, A) + 1
      ]_vars

\* C4, amended: M's new index is A's original index (before) or A's original
\* index + 1 (after) when M originally came after A; when M originally came
\* before A it is A's original index - 1 (before) or A's original index
\* (after).
C4_Index ==
    [][\A M, A \in PlaceIds, track \in Tracks :
          LET shift == IF FindIndex(clips, M) < FindIndex(clips, A) THEN 1 ELSE 0
          IN  /\ PlacesAt(M, track, A, "before") =>
                     FindIndex(clips', M) = FindIndex(clips, A) - shift
              /\ PlacesAt(M, track, A, "after") =>
                     FindIndex(clips', M) = FindIndex(clips, A) + 1 - shift
      ]_vars

\* A clip has been placed between two clips that were imported before it.
C4_Witness ==
    /\ Len(clips) = 3
    /\ clips[1].id < clips[3].id
    /\ clips[3].id < clips[2].id

\* C5: after place(M, track, A, before) M is immediately before A, after
\* place(M, track, A, after) M is immediately after A, and in both cases
\* M's track is the destination track.
C5_AdjacentToAnchor ==
    [][\A M, A \in PlaceIds, track \in Tracks :
          /\ PlacesAt(M, track, A, "before") =>
                 /\ FindIndex(clips', M) + 1 = FindIndex(clips', A)
                 /\ clips'[FindIndex(clips', M)].track = track
          /\ PlacesAt(M, track, A, "after") =>
                 /\ FindIndex(clips', M) = FindIndex(clips', A) + 1
                 /\ clips'[FindIndex(clips', M)].track = track
      ]_vars

\* [A, B, C] after place(B, 0, A, before): [B, A, C] with B on track 0,
\* from an import order in which B was on track 1.
C5_Witness ==
    /\ Len(clips) = 3
    /\ <<clips[1].id, clips[2].id, clips[3].id>> = <<2, 1, 3>>
    /\ <<clips[1].track, clips[2].track, clips[3].track>> = <<0, 0, 0>>

\* The layout the claims speak of, from the clips alone.
StartOf(cs, i) == SumActual(SubSeq(cs, 1, i - 1))
SafeDurationOf(cs, i) == IF cs[i].duration = 0 THEN MIN_CLIP_LENGTH ELSE cs[i].duration

\* The first entry whose start + safeDuration reaches the target, else the last.
FirstReaching(cs, target) ==
    LET reaching == {i \in 1..Len(cs) :
                        RLeq(target, FromInt(StartOf(cs, i) + SafeDurationOf(cs, i)))}
    IN  IF reaching = {} THEN Len(cs)
        ELSE CHOOSE i \in reaching : \A j \in reaching : i <= j

\* clamp(x, lo, hi)
Clamp(x, lo, hi) == IF RLess(x, lo) THEN lo ELSE IF RLess(hi, x) THEN hi ELSE x

\* The step leaves the clip with the id active with local time t as its
\* target: on the surface when that clip was active already, else pending.
ResolvesTo(id, t) ==
    /\ activeClipId' = id
    /\ IF id = ActiveId(clips, activeClipId)
       THEN pendingSeek' = <<>> /\ videoTime' = t
       ELSE pendingSeek' = <<[clipId |-> id, time |-> t]>>

\* The step is seekGlobal(value) on a nonempty sequence.
Seeks(value) == Len(clips) > 0 /\ SeekTimelinePercent(value)

\* The step is seekGlobal(value) on a nonempty sequence of nonzero actual total.
SeeksTimeline(value) == SumActual(clips) # 0 /\ Seeks(value)

\* C6 as stated: on a nonempty sequence of nonzero actual total,
\* seekGlobal(0) resolves to the first entry at local time 0 and
\* seekGlobal(100) to the last entry at its safeDuration, zero-duration
\* clips included.
C6_EndsAsStated ==
    [][/\ SeeksTimeline(Zero) => ResolvesTo(clips[1].id, Zero)
       /\ SeeksTimeline(Hundred) =>
              ResolvesTo(clips[Len(clips)].id,
                         FromInt(SafeDurationOf(clips, Len(clips))))
      ]_vars

\* C6, amended: seekGlobal(0) resolves to the first entry at local time 0;
\* seekGlobal(100) resolves to the first entry whose start + safeDuration
\* reaches the actual total, at local time min(safeDuration, actualTotal -
\* start), which is the last entry at its safeDuration whenever the last
\* clip is longer than MIN_CLIP_LENGTH.
C6_Ends ==
    [][/\ SeeksTimeline(Zero) => ResolvesTo(clips[1].id, Zero)
       /\ SeeksTimeline(Hundred) =>
              LET total == FromInt(SumActual(clips))
                  k == FirstReaching(clips, total)
                  t == RMin(FromInt(SafeDurationOf(clips, k)),
                            RSub(total, FromInt(StartOf(clips, k))))
              IN  /\ ResolvesTo(clips[k].id, t)
                  /\ clips[Len(clips)].duration > MIN_CLIP_LENGTH =>
                         /\ k = Len(clips)
                         /\ t = FromInt(SafeDurationOf(clips, k))
      ]_vars

\* seekGlobal(100) on a sequence that ends in a zero-duration clip has
\* resolved to the end of the clip before it.
C6_Witness ==
    /\ Len(clips) = 3
    /\ clips[3].duration = 0
    /\ clips[2].duration > 0
    /\ timelineProgress = Hundred
    /\ pendingSeek = <<[clipId |-> clips[2].id,
                       time |-> FromInt(clips[2].duration)]>>

\* The local time the step has resolved to.
ResolvedTime == IF pendingSeek # <<>> THEN pendingSeek[1].time ELSE videoTime

\* C7: round trip: when every clip has a known positive duration, mapping a
\* percentage p of [0, 100] to (clip, local time) by the seek and that pair
\* back by (start + min(local time, safeDuration)) / actualTotal * 100, as
\* syncFromVideo does, gives p, on clip boundaries too.
C7_RoundTrip ==
    [][\A p \in Percents :
          (/\ RLeq(Zero, p) /\ RLeq(p, Hundred)
           /\ \A i \in 1..Len(clips) : clips[i].duration > 0
           /\ Seeks(p))
          => SyncFromVideo(clips', activeClipId', ResolvedTime', NaN) = p
      ]_vars

\* A seek to the boundary between the second and the third clip has
\* resolved to the end of the second clip.
C7_Witness ==
    /\ Len(clips) = 3
    /\ \A i \in 1..3 : clips[i].duration > 0
    /\ pendingSeek = <<[clipId |-> clips[2].id,
                       time |-> FromInt(clips[2].duration)]>>
    /\ timelineProgress = PercentOf(StartOf(clips, 3), SumActual(clips))

\* seekGlobal(value), called in this state, leaves the clip with the id
\* active with local time t as its target.
WouldResolveTo(value, id, t) ==
    LET w == SeekWrites(value)
    IN  /\ w.activeClipId = id
        /\ IF id = ActiveId(clips, activeClipId)
           THEN w.pendingSeek = <<>> /\ w.videoTime = t
           ELSE w.pendingSeek = <<[clipId |-> id, time |-> t]>>

\* What C8 says a seek to value resolves to.
C8_Resolution(value) ==
    LET percent == Clamp(value, Zero, Hundred)
        targetSeconds == RMul(RDiv(percent, Hundred), FromInt(SumActual(clips)))
        k == FirstReaching(clips, targetSeconds)
        t == Clamp(RSub(targetSeconds, FromInt(StartOf(clips, k))),
                   Zero, FromInt(SafeDurationOf(clips, k)))
    IN  /\ WouldResolveTo(value, clips[k].id, t)
        /\ RLeq(Zero, t)
        /\ RLeq(t, FromInt(SafeDurationOf(clips, k)))

\* C8 as stated: for every nonempty sequence and every requested percent
\* the seek clamps the percent to [0, 100], takes targetSeconds = percent /
\* 100 * actualTotal, selects the first entry with start + safeDuration >=
\* targetSeconds (the last if none) and yields the local time
\* clamp(targetSeconds - start, 0, safeDuration).
C8_SeekMappingAsStated ==
    Len(clips) > 0 => \A value \in Percents : C8_Resolution(value)

\* C8, amended: the same for every nonempty sequence of nonzero actual
\* total duration; with an actual total of 0 the seek selects nothing and
\* writes nothing.
C8_SeekMapping ==
    Len(clips) > 0 =>
        \A value \in Percents :
            IF SumActual(clips) # 0 THEN C8_Resolution(value)
            ELSE SeekWrites(value) =
                     [activeClipId |-> activeClipId,
                      timelineProgress |-> timelineProgress,
                      pendingSeek |-> pendingSeek,
                      videoTime |-> videoTime]

\* [A(10 s), B(0), C(20 s)]: a seek to 50 has selected C at local time 5 s.
C8_Witness ==
    /\ clips = ScenarioClips
    /\ activeClipId = 3
    /\ timelineProgress = FromInt(50)
    /\ pendingSeek = <<[clipId |-> 3, time |-> FromInt(500)]>>

RECURSIVE SumWidths(_)
SumWidths(items) ==
    IF items = <<>> THEN Zero
    ELSE RAdd(Head(items).widthPercent, SumWidths(Tail(items)))

RECURSIVE SumSafeDurations(_)
SumSafeDurations(items) ==
    IF items = <<>> THEN 0
    ELSE Head(items).safeDuration + SumSafeDurations(Tail(items))

\* C9: for every nonempty clip sequence, whatever the mix of known and zero
\* durations, the widthPercent of the layout entries sum to 100: the
\* safeDurations sum to layoutTotal.
C9_WidthsSumTo100 ==
    Len(clips) > 0 =>
        LET lay == ClipLayouts(clips)
        IN  /\ SumWidths(lay.items) = Hundred
            /\ SumSafeDurations(lay.items) = lay.layoutTotal

\* Three clips are laid out, one of unknown duration among known ones, and
\* the last of them, half the timeline wide, has become the active clip.
C9_Witness ==
    /\ Len(clips) = 3
    /\ {clips[i].duration : i \in 1..3} = {0, 1, 2}
    /\ ClipLayouts(clips).items[3].widthPercent = FromInt(50)
    /\ activeClipId = clips[3].id

\* The probe of a file fails.
ProbeFailure == [kind |-> "error", duration |-> 0]

\* C10: a clip imported with a failed duration probe gets duration 0; in
\* the layout it has safeDuration MIN_CLIP_LENGTH and a widthPercent above
\* 0, and it adds nothing to the actual total; alone in the sequence it has
\* a width of 100 and the actual total is 0.
C10_FailedProbe ==
    [][\A b \in Batches :
          ProbeResolves(b, ProbeFailure) =>
              LET n == Len(clips')
                  lay == ClipLayouts(clips')
              IN  /\ n = Len(clips) + 1
                  /\ clips'[n].duration = 0
                  /\ lay.items[n].safeDuration = MIN_CLIP_LENGTH
                  /\ RLess(Zero, lay.items[n].widthPercent)
                  /\ lay.totalDuration = ClipLayouts(clips).totalDuration
                  /\ n = 1 => /\ lay.items[1].widthPercent = Hundred
                              /\ lay.totalDuration = 0
      ]_vars

\* Two clips whose probes gave no duration share the width, and the actual
\* total is 0.
C10_Witness ==
    /\ Len(clips) = 2
    /\ clips[1].duration = 0
    /\ clips[2].duration = 0
    /\ ClipLayouts(clips).items[2].widthPercent = FromInt(50)
    /\ ClipLayouts(clips).totalDuration = 0

\* What a handler that writes nothing leaves behind.
Untouched ==
    [activeClipId |-> activeClipId,
     timelineProgress |-> timelineProgress,
     pendingSeek |-> pendingSeek,
     videoTime |-> videoTime]

\* C11: seekGlobal is a no-op when the sequence is empty or the actual
\* total duration is 0: for every requested percent the global percent, the
\* active clip, the pending-seek slot and the surface position are what
\* they were, and the call is defined (no error).
C11_SeekNoOp ==
    (Len(clips) = 0 \/ SumActual(clips) = 0) =>
        \A value \in Percents : SeekWrites(value) = Untouched

\* Two clips of unknown duration, the second one selected and loaded: the
\* scrubber stands where it stood, whatever is asked of it.
C11_Witness ==
    /\ Len(clips) = 2
    /\ SumActual(clips) = 0
    /\ activeClipId = clips[2].id
    /\ videoReady
    /\ \A value \in Percents : SeekWrites(value).activeClipId = clips[2].id

\* The arguments a place call can take.
Positions == {"before", "after", "end"}
Anchors == PlaceIds \cup {NoClip}

\* C12: place called with a moving clip id that is not in the sequence
\* returns the sequence unchanged, same order and same track for every
\* clip, for every destination track, anchor and position.
C12_AbsentMovingClip ==
    \A M \in PlaceIds \cup {NoClip} :
        FindIndex(clips, M) = 0 =>
            \A track \in Tracks, A \in Anchors, position \in Positions :
                PlaceClip(clips, M, track, A, position) = clips

\* Three clips stand out of their import order, and a place call naming a
\* clip that is not among them, anchored on the first of them, changes
\* nothing.
C12_Witness ==
    /\ Len(clips) = 3
    /\ clips[1].id > clips[2].id
    /\ \E M \in PlaceIds :
           /\ FindIndex(clips, M) = 0
           /\ PlaceClip(clips, M, 1 - clips[1].track, clips[1].id, "before") = clips

\* The anchor of the call does not stand in the sequence without M.
NoAnchor(M, A, position) ==
    A = NoClip \/ position = "end" \/ FindIndex(Without(clips, M), A) = 0

\* C13: place with a present moving clip M and a null anchor, or position
\* end, or an anchor that is not in the sequence once M is removed (a stale
\* id, or M itself) puts M last, on the destination track, and is defined
\* (no error): the result has the length of the input.
C13_AppendFallback ==
    \A M \in PlaceIds, track \in Tracks, A \in Anchors, position \in Positions :
        (FindIndex(clips, M) # 0 /\ NoAnchor(M, A, position)) =>
            LET result == PlaceClip(clips, M, track, A, position)
            IN  /\ Len(result) = Len(clips)
                /\ result[Len(result)].id = M
                /\ result[Len(result)].track = track
                /\ SubSeq(result, 1, Len(result) - 1) = Without(clips, M)

\* The clip imported first stands last after a place call, on the second
\* track, and placing the now first clip before itself or after a stale
\* anchor would put that one last.
C13_Witness ==
    /\ Len(clips) = 3
    /\ clips[3].id < clips[1].id
    /\ clips[3].track = 1
    /\ \E A \in PlaceIds :
           /\ FindIndex(clips, A) = 0
           /\ PlaceClip(clips, clips[1].id, 0, A, "after")[3].id = clips[1].id
    /\ PlaceClip(clips, clips[1].id, 0, clips[1].id, "before")[3].id = clips[1].id

\* C14: in every reachable state of the editor, after any sequence of
\* import, seekGlobal, place, click-select, metadata-ready, time-updated and
\* ended events, the global scrub position is a value in [0, 100].
C14_ProgressInRange ==
    /\ RLeq(Zero, timelineProgress)
    /\ RLeq(timelineProgress, Hundred)

\* The URLs created so far that have not been revoked.
LiveUrls == {u \in objectUrls : ~BagIn(u, revokedUrls)}

\* The URLs of the clips in the sequence.
ClipUrls == {clips[i].id : i \in 1..Len(clips)}

\* C15: every handle created by an import is released exactly once over the
\* whole run: none is released while the component is mounted and its clip
\* in the sequence, none is released twice, and once the component is torn
\* down every handle created is released, that of a pending or failed probe
\* too.
C15_ReleasedExactlyOnce ==
    /\ \A u \in BagToSet(revokedUrls) : CopiesIn(u, revokedUrls) = 1
    /\ mounted => \A u \in ClipUrls : ~BagIn(u, revokedUrls)
    /\ ~mounted => LiveUrls = {}

\* The record a seek to value leaves in the pending-seek slot when it
\* resolves to another clip than the active one, by the rule of C8.
SeekRecord(value) ==
    LET targetSeconds ==
            RMul(RDiv(Clamp(value, Zero, Hundred), Hundred),
                 FromInt(SumActual(clips)))
        k == FirstReaching(clips, targetSeconds)
        t == Clamp(RSub(targetSeconds, FromInt(StartOf(clips, k))),
                   Zero, FromInt(SafeDurationOf(clips, k)))
    IN  [clipId |-> clips[k].id, time |-> t]

\* A pending seek stands unapplied.
Unapplied == pendingSeek # <<>>

\* The metadata-ready event arrives for the clip the pending seek names.
MetadataReadyForPending ==
    /\ Unapplied
    /\ pendingSeek[1].clipId = ActiveId(clips, activeClipId)
    /\ HandleLoadedMetadata

\* C16: the pending-seek slot holds at most one record; a seekGlobal or an
\* ended event that records a pending seek, an earlier one unapplied or
\* not, leaves its own record alone in the slot (last writer wins, no
\* queue), and the metadata-ready event for the clip of the record applies
\* the time of the record in the slot, cut to the length of the resource,
\* and empties the slot.
C16_LastWriterWins ==
    [][/\ Len(pendingSeek') <= 1
       /\ \A value \in Percents :
              (/\ SeeksTimeline(value)
               /\ SeekRecord(value).clipId # ActiveId(clips, activeClipId))
              => pendingSeek' = <<SeekRecord(value)>>
       /\ \A i \in 1..(Len(clips) - 1) :
              EndedAt(i) =>
                  pendingSeek' = <<[clipId |-> clips[i + 1].id, time |-> Zero]>>
       /\ MetadataReadyForPending =>
              /\ pendingSeek' = <<>>
              /\ \E d \in VideoDurations(clips[ActiveIndex(clips, activeClipId)]) :
                     videoTime' = RMin(pendingSeek[1].time, FromInt(d))
      ]_vars

\* A seek to the end of the timeline stands unapplied for the second clip,
\* at a local time above 0, and a seek to the start would replace its
\* record by that of the first clip at local time 0.
C16_Witness ==
    /\ Len(clips) = 2
    /\ Unapplied
    /\ ~videoReady
    /\ pendingSeek[1].clipId = clips[2].id
    /\ RLess(Zero, pendingSeek[1].time)
    /\ SeekWrites(Zero).pendingSeek = <<[clipId |-> clips[1].id, time |-> Zero]>>

\* The global percent resynchronized from local time t of the clip at index
\* i: (start + min(t, safeDuration)) / actualTotal * 100, and the percent as
\* it stands when the actual total is 0.
Resynchronized(i, t) ==
    IF SumActual(clips) = 0 THEN timelineProgress
    ELSE RMul(RDiv(RAdd(FromInt(StartOf(clips, i)),
                        RMin(t, FromInt(SafeDurationOf(clips, i)))),
                   FromInt(SumActual(clips))),
              Hundred)

Selects(X) == X # ActiveId(clips, activeClipId) /\ ClickClip(X)

\* C18, on a timeline of nonzero actual total: a metadata-ready event for
\* an active clip X that a click selected, with no seek since, leaves the
\* surface at local time 0 and sets the global percent to X.start /
\* actualTotal * 100, whatever seeks and selections happened earlier: so it
\* is when the event follows the click at once.
C18_ClickedClipStartsAtZero ==
    [][\A X \in ClipIds :
          (Selects(X) /\ SumActual(clips) # 0) =>
              \A d \in VideoDurations(clips[FindIndex(clips, X)]) :
                  LET w == MetadataWrites(clips', activeClipId', pendingSeek',
                                          videoTime', timelineProgress', d)
                  IN  /\ w.videoTime = Zero
                      /\ w.timelineProgress =
                             PercentOf(StartOf(clips, FindIndex(clips, X)),
                                       SumActual(clips))
      ]_vars

\* C19: a seekGlobal that resolves to the clip that is already active puts
\* the surface at the local time at once and leaves the pending-seek slot
\* empty; one that resolves to another clip makes that clip active, records
\* (clipId, localTime) and leaves the fresh surface at 0, not loaded, the
\* local time unwritten; in both cases the global percent becomes the
\* clamped requested value.  While a record stands for the active clip
\* whose surface has not loaded, the surface stays at 0.
C19_SeekAppliesOrRecords ==
    [][/\ \A value \in Percents :
              SeeksTimeline(value) =>
                  LET target == SeekRecord(value)
                  IN  /\ timelineProgress' = Clamp(value, Zero, Hundred)
                      /\ activeClipId' = target.clipId
                      /\ clips' = clips
                      /\ IF target.clipId = ActiveId(clips, activeClipId)
                         THEN /\ pendingSeek' = <<>>
                              /\ videoTime' = target.time
                              /\ videoReady' = videoReady
                         ELSE /\ pendingSeek' = <<target>>
                              /\ videoTime' = Zero
                              /\ ~videoReady'
       /\ (/\ pendingSeek' # <<>>
           /\ pendingSeek'[1].clipId = activeClipId'
           /\ ~videoReady')
          => videoTime' = Zero
      ]_vars

\* Of three clips of equal length the first was active when a seek to the
\* middle of the timeline resolved to the second: it is active, its record
\* stands in the slot, the fresh surface is at 0 and has not loaded, and
\* the percent is the requested value.
C19_Witness ==
    /\ Len(clips) = 3
    /\ \A i \in 1..3 : clips[i].duration = 2
    /\ activeClipId = clips[2].id
    /\ ~videoReady
    /\ pendingSeek = <<[clipId |-> clips[2].id, time |-> FromInt(1)]>>
    /\ timelineProgress = FromInt(50)
    /\ videoTime = Zero

\* The global percent derived from the sequence cs, its active clip and the
\* local time t of the surface: (start + t) / actualTotal * 100.
Derived(cs, activeId, t) ==
    RMul(RDiv(RAdd(FromInt(StartOf(cs, ActiveIndex(cs, activeId))), t),
              FromInt(SumActual(cs))),
         Hundred)

\* C20, on a sequence of nonzero actual total: the global scrub position is
\* recomputed on every change of the clip sequence; right after every place
\* and every import it is (the active clip's start in the new layout + the
\* local time of the surface) / new actual total * 100.
C20_PositionRederived ==
    [][(clips' # clips /\ SumActual(clips') # 0) =>
           timelineProgress' = Derived(clips', activeClipId', videoTime')
      ]_vars

\* C21: place changes only the moving clip's track and position: with the
\* moving clip taken out, the sequence is the same before and after (every
\* other clip keeps its track, and the others keep their relative order);
\* the moving clip is the clip it was but for its track, so that no clip's
\* id, resource handle or duration changes; and a call naming no clip of
\* the sequence changes nothing.
C21_PlaceFrame ==
    [][\A M, A \in PlaceIds \cup {NoClip}, track \in Tracks, position \in Positions :
          DropClip(M, track, A, position) =>
              /\ Without(clips', M) = Without(clips, M)
              /\ IF FindIndex(clips, M) = 0 THEN clips' = clips
                 ELSE clips'[FindIndex(clips', M)] =
                          [clips[FindIndex(clips, M)] EXCEPT !.track = track]
      ]_vars

\* Three clips of three different durations, the third moved to the front
\* and to the other track; the other two stand as they were imported.
C21_Witness ==
    /\ Len(clips) = 3
    /\ clips[1] = [id |-> 3, duration |-> 0, track |-> 1]
    /\ clips[2] = [id |-> 1, duration |-> 1, track |-> 0]
    /\ clips[3] = [id |-> 2, duration |-> 2, track |-> 1]

\* The active clip is absent exactly when the sequence is empty, and a
\* member of a nonempty sequence.
ActiveIsMember ==
    /\ (activeClipId = NoClip) <=> (Len(clips) = 0)
    /\ Len(clips) > 0 => FindIndex(clips, activeClipId) # 0

\* C22 as stated, where no click, seek or ended event ever chooses a clip:
\* the active clip is absent exactly when the sequence is empty, a member
\* of a nonempty sequence, and the first clip of it, also after place has
\* reordered the sequence.
C22_ActiveIsFirstAsStated ==
    /\ ActiveIsMember
    /\ Len(clips) > 0 => activeClipId = clips[1].id

\* The step chooses a clip: a click, a seek or an ended event.
Chooses ==
    \/ \E id \in ClipIds : ClickClip(id)
    \/ \E value \in Percents : SeekTimelinePercent(value)
    \/ HandleVideoEnded

\* C22, amended: the active clip is absent exactly when the sequence is
\* empty and a member of a nonempty sequence; the clip that the first import
\* appends to the empty sequence, its first clip, becomes the active one, and
\* the active clip stays the same clip until a click, a seek or an ended
\* event chooses another: place moves it with the rest, so that it need not
\* be the first clip of the reordered sequence.
C22_ActiveIsDefault ==
    [][/\ ActiveIsMember
       /\ ActiveIsMember'
       /\ (activeClipId = NoClip /\ Len(clips') > 0) => activeClipId' = clips'[1].id
       /\ (activeClipId # NoClip /\ activeClipId' # activeClipId) => Chooses
      ]_vars

\* No clip was ever chosen, and place has moved the clip that is active by
\* default behind another one.
C22_Witness ==
    /\ Len(clips) >= 2
    /\ activeClipId = clips[2].id
    /\ activeClipId # clips[1].id

\* The sum of f over the first n clips of the sequence.
RECURSIVE SumFirst(_, _, _)
SumFirst(f(_), cs, n) == IF n = 0 THEN 0 ELSE SumFirst(f, cs, n - 1) + f(cs[n])

ActualDurationOf(clip) == clip.duration
SafeOf(clip) == IF clip.duration = 0 THEN MIN_CLIP_LENGTH ELSE clip.duration

\* C23: for every entry at index i the layout gives start = the sum of the
\* actual durations (0 when unknown) of the entries before it and
\* layoutStart = the sum of their safeDurations; the actual total is the sum
\* of all actual durations and layoutTotal the sum of all safeDurations,
\* MIN_CLIP_LENGTH for the empty sequence; hence start <= layoutStart, with
\* equality exactly when no preceding clip has duration 0.
C23_LayoutCursors ==
    LET lay == ClipLayouts(clips)
    IN  /\ Len(lay.items) = Len(clips)
        /\ \A i \in 1..Len(clips) :
               /\ lay.items[i].id = clips[i].id
               /\ lay.items[i].start = SumFirst(ActualDurationOf, clips, i - 1)
               /\ lay.items[i].layoutStart = SumFirst(SafeOf, clips, i - 1)
               /\ lay.items[i].start <= lay.items[i].layoutStart
               /\ (lay.items[i].start = lay.items[i].layoutStart)
                      <=> (\A j \in 1..(i - 1) : clips[j].duration # 0)
        /\ lay.totalDuration = SumFirst(ActualDurationOf, clips, Len(clips))
        /\ lay.layoutTotal =
               IF Len(clips) = 0 THEN MIN_CLIP_LENGTH
               ELSE SumFirst(SafeOf, clips, Len(clips))

\* A clip of unknown duration stands between two known ones, moved there by
\* place: the third entry starts at 2 and is laid out from 3.
C23_Witness ==
    /\ Len(clips) = 3
    /\ <<clips[1].duration, clips[2].duration, clips[3].duration>> = <<2, 0, 1>>
    /\ clips[2].id = 1
    /\ ClipLayouts(clips).items[3].start = 2
    /\ ClipLayouts(clips).items[3].layoutStart = 3

\* C24: in every reachable state in which a pending seek is outstanding,
\* its target clip is the active clip (so that a record made for a clip is
\* not there to be applied when the user has clicked another clip and come
\* back).
C24_PendingNamesActive ==
    Unapplied => pendingSeek[1].clipId = activeClipId

\* C25: left to itself, with metadata-ready and ended delivered for every
\* clip the surface loads, the active clip moves along the global sequence
\* one clip at a time, never back and never past one, and the editor comes
\* to the state where the last clip is active and the global percent is
\* 100, and stays there.
C25_PlaysThrough ==
    /\ [][LET i == ActiveIndex(clips, activeClipId)
          IN  ActiveIndex(clips', activeClipId') \in {i, i + 1}]_vars
    /\ <>[](ActiveIndex(clips, activeClipId) = Len(clips)
              /\ timelineProgress = Hundred)

\* Three clips, the middle one of unknown duration, have played through:
\* the last is active and loaded, the record of the advance to it has been
\* applied, and its surface stands at its end, the scrubber at 100.
C25_Witness ==
    /\ Len(clips) = 3
    /\ <<clips[1].duration, clips[2].duration, clips[3].duration>> = <<2, 0, 2>>
    /\ activeClipId = clips[3].id
    /\ videoReady
    /\ pendingSeek = <<>>
    /\ videoTime = FromInt(2)
    /\ timelineProgress = Hundred

\* C26: place is idempotent: for every present moving clip M, destination
\* track, anchor other than M (present, stale or null) and position, the
\* same call applied to the result of the first gives the result of the
\* first, order and tracks.
C26_PlaceIdempotent ==
    \A M \in PlaceIds, A \in Anchors, track \in Tracks,
       position \in Positions :
        (A # M /\ FindIndex(clips, M) # 0) =>
            LET once == PlaceClip(clips, M, track, A, position)
            IN  PlaceClip(once, M, track, A, position) = once

\* The first clip imported has been placed after the third and on the other
\* track; placing it there once more would change nothing, placing it
\* before the third would.
C26_Witness ==
    /\ Len(clips) = 3
    /\ <<clips[1].id, clips[2].id, clips[3].id>> = <<2, 3, 1>>
    /\ clips[3].track = 1
    /\ PlaceClip(clips, 1, 1, 3, "after") = clips
    /\ PlaceClip(clips, 1, 1, 3, "before") # clips

\* C27: whatever the interleaving of running import batches, probe
\* completions and place calls, a file whose probe resolves is appended at
\* the end of the sequence as it stands at that moment, once (its id was not
\* in the sequence); the clips already present keep their order and their
\* tracks; an active clip stays active; the batch goes on to a file created
\* later than the one appended, so that the files of a batch are appended in
\* their order; and no other step adds or drops a clip.
C27_ImportsAppend ==
    [][/\ \A b \in Batches, outcome \in ProbeOutcomes :
              ProbeResolves(b, outcome) =>
                  /\ Len(clips') = Len(clips) + 1
                  /\ SubSeq(clips', 1, Len(clips)) = clips
                  /\ clips'[Len(clips')].id = batches[b].url
                  /\ FindIndex(clips, batches[b].url) = 0
                  /\ activeClipId # NoClip => activeClipId' = activeClipId
                  /\ batches'[b].active => batches'[b].url > batches[b].url
       /\ {clips'[i].id : i \in 1..Len(clips')} # {clips[i].id : i \in 1..Len(clips)}
              => \E b \in Batches, outcome \in ProbeOutcomes :
                     ProbeResolves(b, outcome)
       /\ \A id \in ClipIds : Occurrences(clips', id) <= 1
      ]_vars

\* Two batches ran side by side: the second file of the first batch was
\* appended before the only file of the second, which was created earlier.
C27_Witness ==
    /\ Len(clips) = 3
    /\ <<clips[1].id, clips[2].id, clips[3].id>> = <<1, 3, 2>>
    /\ \A b \in Batches : ~batches[b].active
    /\ activeClipId = 1

\* C28: in the single-clip editor every created handle other than that of
\* the loaded clip has been released exactly once, the handle of the clip
\* that is loaded has not been released, and after teardown the last
\* loaded clip's handle has been released exactly once as well.
C28_HandleReleasedOnce ==
    \A url \in 1..singleClip.created :
        CopiesIn(url, singleClip.revoked) =
            IF singleClip.mounted /\ url = singleClip.media THEN 0 ELSE 1

====
